---------------------------- MODULE Spec2Model ----------------------------
(***************************************************************************)
(* The simulation core of SpaceInvaderS (src/main.cpp): the main loop of   *)
(* main(), one action per step of a loop iteration (a "tick"), and the key *)
(* callback.  Rendering is left out except for the frame selection of the  *)
(* draw step, which divides by a clock's frame_duration.                   *)
(*                                                                         *)
(* size_t values are kept as integers n standing for n mod 2^64: a value   *)
(* that wrapped below zero is a negative integer, and the unsigned         *)
(* comparisons (ULt ...) order every negative integer above every          *)
(* non-negative one, as the wrapped value is in the program.               *)
(***************************************************************************)
EXTENDS Integers, Sequences, FiniteSets, TLC

(* ------------------------- program constants ------------------------- *)
buffer_width == 224
buffer_height == 256
game_max_bullets == 128
num_aliens == 55
DEAD == 0
initial_lives == 3
initial_player_x == 107
player_y == 32
initial_swarm_position == 24
initial_move_dir == 4
initial_update_frequency == 120
initial_death_counter == 10
initial_frame_duration == 10
num_frames == 2
bullet_frame_duration == 5
rng_seed == 13
descend_step == 8
speed_change_kills == 15
grid_rows == 5
grid_cols == 11

bullet_sprite == [width |-> 1, height |-> 3]
alien_bullet_sprite == [width |-> 3, height |-> 7]
alien_death_sprite == [width |-> 13, height |-> 7]
player_sprite == [width |-> 11, height |-> 7]
\* alien_sprites[n + 1] is the source's alien_sprites[n]
alien_sprites ==
  << [width |-> 8, height |-> 8], [width |-> 8, height |-> 8],
     [width |-> 11, height |-> 8], [width |-> 11, height |-> 8],
     [width |-> 12, height |-> 8], [width |-> 12, height |-> 8] >>

(* ------------------------- unsigned arithmetic ----------------------- *)
\* a < b on size_t values
ULt(a, b) == IF (a < 0) = (b < 0) THEN a < b ELSE b < 0
UGt(a, b) == ULt(b, a)
UGe(a, b) == ~ULt(a, b)

(* ------------------------- the random generator ---------------------- *)
\* A uint32_t is kept as its two 16-bit halves [hi, lo]: hi * 2^16 + lo.
Word(n) == [hi |-> n \div 65536, lo |-> n % 65536]

RECURSIVE XorBits(_, _, _)
\* a ^ b on the low n bits
XorBits(a, b, n) ==
  IF n = 0 THEN 0
  ELSE ((a + b) % 2) + 2 * XorBits(a \div 2, b \div 2, n - 1)
Xor(v, w) == [hi |-> XorBits(v.hi, w.hi, 16), lo |-> XorBits(v.lo, w.lo, 16)]
\* w << n for n < 16: the bits pushed past bit 31 are lost
Shl(w, n) ==
  [hi |-> (w.hi * 2 ^ n + w.lo \div 2 ^ (16 - n)) % 65536,
   lo |-> (w.lo * 2 ^ n) % 65536]
\* w >> n for 16 <= n < 32
Shr(w, n) == [hi |-> 0, lo |-> w.hi \div 2 ^ (n - 16)]
Lo16(w) == w.lo
Hi16(w) == w.hi

\* seeded fault: the second step assigns the shifted word instead of xoring it in
xorshift32_assign(w) ==
  LET a == Xor(w, Shl(w, 13))
      b == Shr(a, 17)
  IN  Xor(b, Shl(b, 5))

xorshift32(w) ==
  LET a == Xor(w, Shl(w, 13))
      b == Xor(a, Shr(a, 17))
  IN  Xor(b, Shl(b, 5))

\* static_cast<size_t>(n * random(&rng)) for the generator output w:
\* floor(n * w / (2^32 - 1)), computed on 16-bit halves; k * (2^32 - 1) <= n * w
\* is compared as (A, B) >= (k * 2^16 - 1, 2^16 - k) with n * w = A * 2^16 + B.
RandomIndex(n, w) ==
  LET low == n * Lo16(w)
      B == low % 65536
      A == n * Hi16(w) + (low \div 65536)
  IN  Cardinality({k \in 1 .. n :
        \/ A > k * 65536 - 1
        \/ A = k * 65536 - 1 /\ B >= 65536 - k})

\* rng % m for a size_t m
RngMod(w, m) ==
  IF m < 0 THEN Hi16(w) * 65536 + Lo16(w)
  ELSE ((((Hi16(w) % m) * (65536 % m)) % m) + Lo16(w)) % m

(* ------------------------------- state ------------------------------- *)
VARIABLES
  game_running,              \* global
  move_dir,                  \* global: net movement intent
  alien_move_dir,            \* global: signed step of the swarm
  fire_pressed,              \* global: fire requested
  should_change_speed,       \* global: difficulty ramp flag
  aliens_killed,             \* global: kills of this wave
  alien_update_timer,        \* global: ticks since the last formation step
  alien_swarm_position,      \* global
  alien_swarm_max_position,  \* local of main
  alien_update_frequency,    \* local of main
  rng,                       \* local of main, a uint32_t as [hi, lo]
  score,                     \* local of main
  aliens,                    \* game.aliens: 0 .. num_aliens - 1 -> [x, y, type]
  alien_death_counter,       \* 0 .. num_aliens - 1 -> count
  alien_animation,           \* 0 .. 2 -> [frame_duration, time]
  alien_bullet_animation,    \* [frame_duration, time]
  bullets,                   \* game.bullets[0 .. game.num_bullets - 1]
  player,                    \* game.player: [x, y, lives]
  pc,                        \* the step of the loop iteration to run next
  bi,                        \* the index i of the bullet loop
  fault,                     \* undefined behaviour met, "none" if none
  ticks,                     \* loop iterations started
  pilot,                     \* the player at the keyboard
  probe,                     \* a function of the program called on its own: [fn, arg, ret]
  skipped                    \* pool slots whose bullet a removal moved there and the
                             \* bullet loop has not visited since: {[slot, tick]}

vars ==
  << game_running, move_dir, alien_move_dir, fire_pressed, should_change_speed,
     aliens_killed, alien_update_timer, alien_swarm_position,
     alien_swarm_max_position, alien_update_frequency, rng, score, aliens,
     alien_death_counter, alien_animation, alien_bullet_animation, bullets,
     player, pc, bi, fault, ticks, pilot, probe, skipped >>

\* what the simulation owns: everything but the input globals and the loop position
sim_vars ==
  << alien_move_dir, should_change_speed, aliens_killed, alien_update_timer,
     alien_swarm_position, alien_swarm_max_position, alien_update_frequency,
     rng, score, aliens, alien_death_counter, alien_animation,
     alien_bullet_animation, bullets, player >>

input_vars == << game_running, move_dir, fire_pressed >>

AlienIds == 0 .. num_aliens - 1
num_bullets == Len(bullets)

\* alien.type for row yi, and the sprite that sets its x offset
RowType(yi) == (5 - yi) \div 2 + 1
SpawnX(xi, type, position) ==
  16 * xi + position
    + (alien_death_sprite.width - alien_sprites[2 * (type - 1) + 1].width) \div 2
SpawnY(yi) == 17 * yi + 128

\* the aliens as main() places them before the loop: index yi * 11 + xi
InitialAliens ==
  [a \in AlienIds |->
     LET yi == a \div grid_cols
         xi == a % grid_cols
     IN  [x |-> SpawnX(xi, RowType(yi), initial_swarm_position),
          y |-> SpawnY(yi),
          type |-> RowType(yi)]]

InitialState ==
  /\ game_running = TRUE
  /\ move_dir = 0
  /\ alien_move_dir = initial_move_dir
  /\ fire_pressed = FALSE
  /\ should_change_speed = FALSE
  /\ aliens_killed = 0
  /\ alien_update_timer = 0
  /\ alien_swarm_position = initial_swarm_position
  /\ alien_swarm_max_position = buffer_width - 16 * 11 - 3
  /\ alien_update_frequency = initial_update_frequency
  /\ rng = Word(rng_seed)
  /\ score = 0
  /\ aliens = InitialAliens
  /\ alien_death_counter = [a \in AlienIds |-> initial_death_counter]
  /\ alien_animation =
       [k \in 0 .. 2 |-> [frame_duration |-> initial_frame_duration, time |-> 0]]
  /\ alien_bullet_animation = [frame_duration |-> bullet_frame_duration, time |-> 0]
  /\ bullets = << >>
  /\ player = [x |-> initial_player_x, y |-> player_y, lives |-> initial_lives]
  /\ pc = "loop"
  /\ bi = 0
  /\ fault = "none"
  /\ ticks = 0
  /\ skipped = {}

(* --------------------------- shared helpers -------------------------- *)
\* seeded fault: the right edge of the first rectangle counts as inside it
sprite_overlap_inclusive(sp_a, x_a, y_a, sp_b, x_b, y_b) ==
  /\ ULt(x_a, x_b + sp_b.width)
  /\ UGe(x_a + sp_a.width, x_b)
  /\ ULt(y_a, y_b + sp_b.height)
  /\ UGt(y_a + sp_a.height, y_b)

sprite_overlap_check(sp_a, x_a, y_a, sp_b, x_b, y_b) ==
  /\ ULt(x_a, x_b + sp_b.width)
  /\ UGt(x_a + sp_a.width, x_b)
  /\ ULt(y_a, y_b + sp_b.height)
  /\ UGt(y_a + sp_a.height, y_b)

\* animation.time / animation.frame_duration and frames[current_frame] for an
\* alien type: a zero frame_duration divides by zero, a frame >= num_frames
\* reads past the two frames of the clock
FrameFault(type) ==
  LET an == alien_animation[type - 1]
  IN  IF an.frame_duration = 0 THEN "div_zero"
      ELSE IF an.time \div an.frame_duration >= num_frames THEN "frame_index"
      ELSE "none"

CurrentFrameSprite(type) ==
  LET an == alien_animation[type - 1]
  IN  alien_sprites[2 * (type - 1) + (an.time \div an.frame_duration) + 1]

\* game.bullets[k] = game.bullets[game.num_bullets - 1]; --game.num_bullets
RemoveBullet(bs, k) ==
  SubSeq([bs EXCEPT ![k + 1] = bs[Len(bs)]], 1, Len(bs) - 1)

Halt(f) ==
  /\ fault' = f
  /\ pc' = "halt"

\* seeded fault: the game-over branch is never taken
GameOverIgnored == FALSE

\* if (game.player.lives == 0): the game-over branch is taken
GameOver == player.lives = 0

\* seeded fault: the score grows with the kind instead of falling
KillScoreByKind(type) == 10 * type

\* score += 10 * (4 - game.aliens[j].type)
KillScore(type) == 10 * (4 - type)

\* seeded fault: the ramp flag is raised every fifth kill
RaisesSpeedEveryFive(killed) == killed % 5 = 0

\* if (aliens_killed % 15 == 0) should_change_speed = true
RaisesSpeed(killed) == killed % speed_change_kills = 0

\* seeded fault: the bullet pass is left out after the drift
AfterDriftSkipsBullets == "ramp"

\* the drift block is followed by the bullet loop
AfterDrift == "bullets"

\* seeded fault: the bullet loop goes on after a hit on the player
AfterPlayerHitContinue == "bullets"

\* the break after a hit on the player leaves the bullet loop
AfterPlayerHit == "ramp"

\* seeded fault: the wave counts as cleared at the first speed change
WaveClearedEarly == ~(aliens_killed < speed_change_kills)

\* seeded fault: the wave counts as cleared one kill too late
WaveClearedLate == aliens_killed > num_aliens

\* the else of if (aliens_killed < game.num_aliens): the wave is cleared
WaveCleared == ~(aliens_killed < num_aliens)

\* seeded fault: the guard of the player's shot is off by one
PoolHasRoomInclusive == num_bullets <= game_max_bullets

\* game.num_bullets < game_max_bullets, the guard of the player's shot
PoolHasRoom == num_bullets < game_max_bullets

MinOf(S) == CHOOSE m \in S : \A n \in S : m <= n
MaxOf(S) == CHOOSE m \in S : \A n \in S : m >= n
AliveIds(als) == {a \in AlienIds : als[a].type # DEAD}

(* ------------------------- the loop iteration ------------------------ *)
\* while (!glfwWindowShouldClose(window) && game_running), and the game-over
\* branch, which draws, polls and continues
LoopHead ==
  /\ pc = "loop"
  /\ ticks < pilot.horizon
  /\ IF ~game_running
       THEN pc' = "exit" /\ ticks' = ticks
       ELSE /\ ticks' = ticks + 1
            /\ pc' = IF GameOver THEN "poll" ELSE "draw"
  /\ UNCHANGED << sim_vars, input_vars, bi, fault, pilot, probe, skipped >>

\* drawing the aliens selects the frame of every alive alien still counted
DrawFault ==
  LET bad == {a \in AlienIds :
                /\ alien_death_counter[a] # 0
                /\ aliens[a].type # DEAD
                /\ FrameFault(aliens[a].type) # "none"}
  IN  IF bad = {} THEN "none" ELSE FrameFault(aliens[MinOf(bad)].type)

Draw ==
  /\ pc = "draw"
  /\ IF DrawFault # "none"
       THEN Halt(DrawFault)
       ELSE pc' = "drift" /\ fault' = fault
  /\ UNCHANGED << sim_vars, input_vars, bi, ticks, pilot, probe, skipped >>

\* the body of the drift loop from alien a on, with the running alien_move_dir
RECURSIVE DriftFrom(_, _, _)
DriftFrom(a, als, amd) ==
  IF a = num_aliens THEN [aliens |-> als, move_dir |-> amd]
  ELSE IF als[a].type = DEAD THEN DriftFrom(a + 1, als, amd)
  ELSE IF UGt(als[a].y, buffer_height)
    THEN DriftFrom(a + 1,
           [als EXCEPT ![a] = [x |-> RngMod(rng, alien_swarm_max_position),
                               y |-> 0, type |-> DEAD]],
           amd - 1)
    ELSE DriftFrom(a + 1, [als EXCEPT ![a].y = als[a].y + amd], amd)

\* if (alien_update_frequency-- == 0): every 121st tick the alive aliens
\* drift by alien_move_dir, and those above the playfield are wrapped
\* seeded fault: the countdown is tested after the decrement
DriftDueEarly(frequency) == frequency - 1 = 0

\* alien_update_frequency-- == 0: the value before the decrement is tested
DriftDue(frequency) == frequency = 0

Drift ==
  /\ pc = "drift"
  /\ IF DriftDue(alien_update_frequency)
       THEN LET d == DriftFrom(0, aliens, alien_move_dir)
            IN  /\ alien_update_frequency' = initial_update_frequency
                /\ aliens' = d.aliens
                /\ alien_move_dir' = d.move_dir
       ELSE /\ alien_update_frequency' = alien_update_frequency - 1
            /\ UNCHANGED << aliens, alien_move_dir >>
  /\ pc' = AfterDrift
  /\ bi' = 0
  /\ UNCHANGED << should_change_speed, aliens_killed, alien_update_timer,
                  alien_swarm_position, alien_swarm_max_position, rng, score,
                  alien_death_counter, alien_animation, alien_bullet_animation,
                  bullets, player, input_vars, fault, ticks, pilot, probe, skipped >>

\* seeded fault: the inner loop has an index of its own and takes out an alien
\* bullet the player bullet of slot i overlaps
InterceptScanDistinct(bs) ==
  LET found == {k \in bi + 1 .. Len(bs) - 1 :
                  /\ bs[k + 1].dir < 0
                  /\ sprite_overlap_check(bullet_sprite, bs[bi + 1].x, bs[bi + 1].y,
                       alien_bullet_sprite, bs[k + 1].x, bs[k + 1].y)}
  IN  IF found = {} THEN bs
      ELSE SubSeq([bs EXCEPT ![MinOf(found) + 1] = bs[Len(bs)]], 1, Len(bs) - 1)

\* the inner loop "player bullet hits an alien bullet": its index shadows the
\* outer one, so every pass takes the continue of if (i == i) and the pair
\* removal below it is never reached
InterceptScan(bs) ==
  LET found == {k \in 0 .. Len(bs) - 1 :
                  /\ ~(k = k)
                  /\ sprite_overlap_check(bullet_sprite, bs[k + 1].x, bs[k + 1].y,
                       alien_bullet_sprite, bs[k + 1].x, bs[k + 1].y)}
  IN  IF found = {} THEN bs
      ELSE SubSeq([bs EXCEPT ![MinOf(found) + 1] = bs[Len(bs) - 1]],
                  1, Len(bs) - 2)

\* the hit loop of a player bullet b over the aliens: the first alive alien
\* whose frame selection faults or whose sprite the bullet overlaps
ScanAliens(b) ==
  LET ff == [t \in 1 .. 3 |-> FrameFault(t)]
      sp == [t \in 1 .. 3 |->
               IF ff[t] = "none" THEN CurrentFrameSprite(t) ELSE bullet_sprite]
      cand == {j \in AlienIds :
                 /\ aliens[j].type # DEAD
                 /\ \/ ff[aliens[j].type] # "none"
                    \/ sprite_overlap_check(bullet_sprite, b.x, b.y,
                         sp[aliens[j].type], aliens[j].x, aliens[j].y)}
  IN  IF cand = {} THEN [res |-> "miss", j |-> num_aliens, fault |-> "none"]
      ELSE LET j == MinOf(cand)
           IN  IF ff[aliens[j].type] # "none"
                 THEN [res |-> "fault", j |-> j, fault |-> ff[aliens[j].type]]
                 ELSE [res |-> "hit", j |-> j, fault |-> "none"]

Expired(b) ==
  \/ UGe(b.y, buffer_height)
  \/ ULt(b.y, bullet_sprite.height)

HitsPlayer(b) ==
  sprite_overlap_check(alien_bullet_sprite, b.x, b.y,
                       player_sprite, player.x, player.y)

\* one pass of the bullet loop, for (i = 0; i < game.num_bullets; ++i)
\* the bullet loop visits slot k: the bullet there is advanced and tested
Visit(sk, k) == {e \in sk : e.slot # k}
\* a removal at slot k of n live bullets moves the bullet of slot n - 1 into
\* slot k, and the loop goes on to slot k + 1. A bullet moved again keeps the
\* tick of its first move; noted says whether a first move is recorded.
MoveLast(sk, k, n, noted) ==
  LET rest == {e \in sk : e.slot # k /\ e.slot # n - 1}
      again == {e \in sk : e.slot = n - 1}
  IN  IF k = n - 1 THEN rest
      ELSE IF again # {} THEN rest \cup {[slot |-> k, tick |-> e.tick] : e \in again}
      ELSE IF noted THEN rest \cup {[slot |-> k, tick |-> ticks]}
      ELSE rest

BulletStep ==
  /\ pc = "bullets"
  /\ bi < num_bullets
  /\ LET b == [bullets[bi + 1] EXCEPT !.y = bullets[bi + 1].y + bullets[bi + 1].dir]
         moved == [bullets EXCEPT ![bi + 1] = b]
     IN  IF Expired(b)
           THEN /\ bullets' = RemoveBullet(moved, bi)
                /\ skipped' = MoveLast(skipped, bi, num_bullets, TRUE)
                /\ bi' = bi + 1
                /\ pc' = pc
                /\ UNCHANGED << player, score, aliens, aliens_killed,
                                should_change_speed, fault >>
         ELSE IF b.dir < 0
           THEN IF HitsPlayer(b)
                  THEN /\ player' = [player EXCEPT !.lives = player.lives - 1]
                       /\ bullets' = RemoveBullet(moved, bi)
                       /\ skipped' = MoveLast(skipped, bi, num_bullets, FALSE)
                       /\ pc' = AfterPlayerHit
                       /\ bi' = bi
                       /\ UNCHANGED << score, aliens, aliens_killed,
                                       should_change_speed, fault >>
                  ELSE /\ bullets' = moved
                       /\ skipped' = Visit(skipped, bi)
                       /\ bi' = bi + 1
                       /\ pc' = pc
                       /\ UNCHANGED << player, score, aliens, aliens_killed,
                                       should_change_speed, fault >>
         ELSE LET kept == InterceptScan(moved)
                  scan == ScanAliens(kept[bi + 1])
                  j == scan.j
              IN  IF scan.res = "fault"
                    THEN /\ Halt(scan.fault)
                         /\ bullets' = kept
                         /\ skipped' = Visit(skipped, bi)
                         /\ bi' = bi
                         /\ UNCHANGED << player, score, aliens, aliens_killed,
                                         should_change_speed >>
                  ELSE IF scan.res = "hit"
                    THEN /\ score' = score + KillScore(aliens[j].type)
                         /\ aliens' =
                              [aliens EXCEPT
                                 ![j].type = DEAD,
                                 ![j].x = aliens[j].x
                                   - (alien_death_sprite.width
                                      - CurrentFrameSprite(aliens[j].type).width) \div 2]
                         /\ bullets' = RemoveBullet(kept, bi)
                         /\ skipped' = MoveLast(skipped, bi, Len(kept), TRUE)
                         /\ aliens_killed' = aliens_killed + 1
                         /\ should_change_speed' =
                              IF RaisesSpeed(aliens_killed + 1)
                                THEN TRUE ELSE should_change_speed
                         /\ bi' = bi + 1
                         /\ pc' = pc
                         /\ UNCHANGED << player, fault >>
                  ELSE /\ bullets' = kept
                       /\ skipped' = Visit(skipped, bi)
                       /\ bi' = bi + 1
                       /\ pc' = pc
                       /\ UNCHANGED << player, score, aliens, aliens_killed,
                                       should_change_speed, fault >>
  /\ UNCHANGED << alien_move_dir, alien_update_timer, alien_swarm_position,
                  alien_swarm_max_position, alien_update_frequency, rng,
                  alien_death_counter, alien_animation, alien_bullet_animation,
                  input_vars, ticks, pilot, probe >>

\* the loop condition i < game.num_bullets fails
BulletsDone ==
  /\ pc = "bullets"
  /\ bi >= num_bullets
  /\ pc' = "ramp"
  /\ UNCHANGED << sim_vars, input_vars, bi, fault, ticks, pilot, probe, skipped >>

\* if (should_change_speed): the difficulty ramp
Ramp ==
  /\ pc = "ramp"
  /\ IF should_change_speed
       THEN /\ should_change_speed' = FALSE
            /\ alien_update_frequency' = alien_update_frequency \div 2
            /\ alien_animation' =
                 [k \in 0 .. 2 |->
                    [alien_animation[k] EXCEPT
                       !.frame_duration = alien_update_frequency \div 2]]
       ELSE UNCHANGED << should_change_speed, alien_update_frequency,
                         alien_animation >>
  /\ pc' = "deaths"
  /\ UNCHANGED << alien_move_dir, aliens_killed, alien_update_timer,
                  alien_swarm_position, alien_swarm_max_position, rng, score,
                  aliens, alien_death_counter, alien_bullet_animation, bullets,
                  player, input_vars, bi, fault, ticks, pilot, probe, skipped >>

\* counting deaths
\* seeded fault: the count of a dead alien goes down without the test for 0,
\* and the uint8_t wraps
CountDownUnguarded(type, count) ==
  IF type = DEAD THEN (count + 255) % 256 ELSE count

\* if (type == DEAD && alien_death_counter[i]) --alien_death_counter[i]
CountDown(type, count) ==
  IF type = DEAD /\ count # 0 THEN count - 1 ELSE count

Deaths ==
  /\ pc = "deaths"
  /\ alien_death_counter' =
       [a \in AlienIds |-> CountDown(aliens[a].type, alien_death_counter[a])]
  /\ pc' = "formation"
  /\ UNCHANGED << alien_move_dir, should_change_speed, aliens_killed,
                  alien_update_timer, alien_swarm_position,
                  alien_swarm_max_position, alien_update_frequency, rng, score,
                  aliens, alien_animation, alien_bullet_animation, bullets,
                  player, input_vars, bi, fault, ticks, pilot, probe, skipped >>

\* rai = num_aliens * random(&rng), drawn again while aliens[rai] is DEAD.
\* With no alive alien the loop never ends; a draw of 2^32 - 1 gives rai = 55.
RECURSIVE SampleAlive(_, _)
SampleAlive(w, als) ==
  IF AliveIds(als) = {} THEN [rng |-> w, rai |-> 0, fault |-> "no_alive_alien"]
  ELSE LET w1 == xorshift32(w)
           rai == RandomIndex(num_aliens, w1)
       IN  IF rai >= num_aliens THEN [rng |-> w1, rai |-> rai, fault |-> "alien_index"]
           ELSE IF als[rai].type # DEAD THEN [rng |-> w1, rai |-> rai, fault |-> "none"]
           ELSE SampleAlive(w1, als)

\* the bullet an alien fires: written at game.bullets[game.num_bullets]
AlienBullet(al) ==
  [x |-> al.x + alien_sprites[2 * (al.type - 1) + 1].width \div 2,
   y |-> al.y - alien_bullet_sprite.height,
   dir |-> -2]

\* (int)alien_swarm_position + alien_move_dir < 0
LeftEdgePassed(position, dir) == position + dir < 0

\* seeded fault: the right bound is tested after the step instead of before it
RightEdgePassedLate(position, max_position, dir) == UGt(position, max_position)

\* alien_swarm_position > alien_swarm_max_position - alien_move_dir, on size_t
RightEdgePassed(position, max_position, dir) == UGt(position, max_position - dir)

\* the formation step, taken when alien_update_timer >= alien_update_frequency
Formation ==
  /\ pc = "formation"
  /\ IF UGe(alien_update_timer, alien_update_frequency)
       THEN LET left == LeftEdgePassed(alien_swarm_position, alien_move_dir)
                right == RightEdgePassed(alien_swarm_position,
                                         alien_swarm_max_position, alien_move_dir)
                amd == IF left \/ right THEN -alien_move_dir ELSE alien_move_dir
                als == [a \in AlienIds |->
                          [aliens[a] EXCEPT
                             !.x = aliens[a].x + amd,
                             !.y = IF left THEN aliens[a].y - descend_step
                                   ELSE aliens[a].y]]
                smp == SampleAlive(rng, als)
            IN  /\ alien_update_timer' = 0
                /\ alien_move_dir' = amd
                /\ alien_swarm_position' = alien_swarm_position + amd
                /\ aliens' = als
                /\ IF aliens_killed < num_aliens
                     THEN /\ rng' = smp.rng
                          /\ IF smp.fault # "none"
                               THEN Halt(smp.fault) /\ bullets' = bullets
                               ELSE /\ bullets' = Append(bullets, AlienBullet(als[smp.rai]))
                                    /\ IF num_bullets >= game_max_bullets
                                         THEN Halt("bullet_overflow")
                                         ELSE pc' = "anim" /\ fault' = fault
                     ELSE /\ pc' = "anim"
                          /\ UNCHANGED << rng, bullets, fault >>
       ELSE /\ pc' = "anim"
            /\ UNCHANGED << alien_update_timer, alien_move_dir,
                            alien_swarm_position, aliens, rng, bullets, fault >>
  /\ UNCHANGED << should_change_speed, aliens_killed, alien_swarm_max_position,
                  alien_update_frequency, score, alien_death_counter,
                  alien_animation, alien_bullet_animation, player, input_vars,
                  bi, ticks, pilot, probe, skipped >>

AdvanceClock(an) ==
  IF an.time + 1 >= num_frames * an.frame_duration
    THEN [an EXCEPT !.time = 0]
    ELSE [an EXCEPT !.time = an.time + 1]

\* update animations, and ++alien_update_timer
Anim ==
  /\ pc = "anim"
  /\ alien_animation' = [k \in 0 .. 2 |-> AdvanceClock(alien_animation[k])]
  /\ alien_bullet_animation' = AdvanceClock(alien_bullet_animation)
  /\ alien_update_timer' = alien_update_timer + 1
  /\ pc' = "player"
  /\ UNCHANGED << alien_move_dir, should_change_speed, aliens_killed,
                  alien_swarm_position, alien_swarm_max_position,
                  alien_update_frequency, rng, score, aliens,
                  alien_death_counter, bullets, player, input_vars, bi, fault,
                  ticks, pilot, probe, skipped >>

\* simulating player: player_move = 2 * move_dir, clamped
\* seeded fault: the right wall is tested without the width of the player
MovePlayerWide(x, player_move) ==
  IF player_move = 0 THEN x
  ELSE IF UGe(x + player_move, buffer_width)
    THEN buffer_width - player_sprite.width
  ELSE IF x + player_move <= 0 THEN 0
  ELSE x + player_move

MovePlayer(x, player_move) ==
  IF player_move = 0 THEN x
  ELSE IF UGe(x + player_sprite.width + player_move, buffer_width)
    THEN buffer_width - player_sprite.width
  ELSE IF x + player_move <= 0 THEN 0
  ELSE x + player_move

Player ==
  /\ pc = "player"
  /\ player' = [player EXCEPT !.x = MovePlayer(player.x, 2 * move_dir)]
  /\ pc' = "bounds"
  /\ UNCHANGED << alien_move_dir, should_change_speed, aliens_killed,
                  alien_update_timer, alien_swarm_position,
                  alien_swarm_max_position, alien_update_frequency, rng, score,
                  aliens, alien_death_counter, alien_animation,
                  alien_bullet_animation, bullets, input_vars, bi, fault, ticks,
                  pilot, probe, skipped >>

\* the aliens as the wave reset places them: index xi * 5 + yi
ResetAliens ==
  [a \in AlienIds |->
     LET xi == a \div grid_rows
         yi == a % grid_rows
     IN  [x |-> SpawnX(xi, RowType(yi), initial_swarm_position),
          y |-> SpawnY(yi),
          type |-> RowType(yi)]]

\* pos of the first alive alien, and of the last one
FirstAlivePos(als) ==
  LET al == als[MinOf(AliveIds(als))]
  IN  al.x - (alien_death_sprite.width
               - alien_sprites[2 * (al.type - 1) + 1].width) \div 2
LastAlivePos(als) ==
  buffer_width - als[MaxOf(AliveIds(als))].x - 13 + FirstAlivePos(als)

\* bounds tracking while aliens_killed < game.num_aliens, else the wave reset
Bounds ==
  /\ pc = "bounds"
  /\ IF ~WaveCleared
       THEN IF AliveIds(aliens) = {}
              THEN /\ Halt("no_alive_alien")
                   /\ UNCHANGED << alien_swarm_position, alien_swarm_max_position,
                                   alien_update_frequency, aliens_killed,
                                   alien_update_timer, alien_move_dir, aliens,
                                   alien_death_counter >>
              ELSE /\ alien_swarm_position' =
                        IF UGt(FirstAlivePos(aliens), alien_swarm_position)
                          THEN FirstAlivePos(aliens) ELSE alien_swarm_position
                   /\ alien_swarm_max_position' =
                        IF UGt(LastAlivePos(aliens), alien_swarm_max_position)
                          THEN LastAlivePos(aliens) ELSE alien_swarm_max_position
                   /\ pc' = "fire"
                   /\ UNCHANGED << alien_update_frequency, aliens_killed,
                                   alien_update_timer, alien_move_dir, aliens,
                                   alien_death_counter, fault >>
       ELSE /\ alien_update_frequency' = initial_update_frequency
            /\ alien_swarm_position' = initial_swarm_position
            /\ aliens_killed' = 0
            /\ alien_update_timer' = 0
            /\ alien_move_dir' = initial_move_dir
            /\ alien_death_counter' = [a \in AlienIds |-> initial_death_counter]
            /\ aliens' = ResetAliens
            /\ pc' = "fire"
            /\ UNCHANGED << alien_swarm_max_position, fault >>
  /\ UNCHANGED << should_change_speed, rng, score, alien_animation,
                  alien_bullet_animation, bullets, player, input_vars, bi,
                  ticks, pilot, probe, skipped >>

PlayerBullet ==
  [x |-> player.x + player_sprite.width \div 2, y |-> player.y, dir |-> 2]

\* process events: the fire request, then fire_pressed = false
Fire ==
  /\ pc = "fire"
  /\ bullets' = IF fire_pressed /\ PoolHasRoom
                  THEN Append(bullets, PlayerBullet) ELSE bullets
  /\ fire_pressed' = FALSE
  /\ pc' = "poll"
  /\ UNCHANGED << alien_move_dir, should_change_speed, aliens_killed,
                  alien_update_timer, alien_swarm_position,
                  alien_swarm_max_position, alien_update_frequency, rng, score,
                  aliens, alien_death_counter, alien_animation,
                  alien_bullet_animation, player, game_running, move_dir, bi,
                  fault, ticks, pilot, probe, skipped >>

(* ------------------------------ the input ---------------------------- *)
Keys == {"ESCAPE", "D", "A", "SPACE", "OTHER"}
KeyActions == {"PRESS", "RELEASE", "REPEAT"}

\* key_callback: ESCAPE falls through to the D case unless it is a press
key_callback(key, action) ==
  /\ game_running' =
       IF key = "ESCAPE" /\ action = "PRESS" THEN FALSE ELSE game_running
  /\ move_dir' =
       CASE key = "ESCAPE" /\ action = "RELEASE" -> move_dir - 1
         [] key = "D" /\ action = "PRESS" -> move_dir + 1
         [] key = "D" /\ action = "RELEASE" -> move_dir - 1
         [] key = "A" /\ action = "PRESS" -> move_dir - 1
         [] key = "A" /\ action = "RELEASE" -> move_dir + 1
         [] OTHER -> move_dir
  /\ fire_pressed' =
       IF key = "SPACE" /\ action = "PRESS" THEN TRUE ELSE fire_pressed

\* The pilot flies a plan, a sequence of legs [ticks, move, fire]: for that
\* many ticks keep move_dir at move and press the fire key every fire-th tick
\* (fire = 0: never).  After the plan the pilot lets go of the keys.  During
\* the first pilot.escape ticks the pilot may also touch ESCAPE.
RECURSIVE LegAt(_, _, _)
LegAt(plan, i, t) ==
  IF i > Len(plan) THEN [move |-> 0, fire |-> 0, at |-> t]
  ELSE IF t <= plan[i].ticks
    THEN [move |-> plan[i].move, fire |-> plan[i].fire, at |-> t]
  ELSE LegAt(plan, i + 1, t - plan[i].ticks)

Leg == LegAt(pilot.plan, 1, ticks)
Want == Leg.move
Firing == Leg.fire > 0 /\ (Leg.at - 1) % Leg.fire = 0

PilotSends(key, action) ==
  \/ key = "D" /\ action = "PRESS" /\ move_dir = 0 /\ Want > 0
  \/ key = "D" /\ action = "RELEASE" /\ move_dir > 0 /\ Want < move_dir
  \/ key = "A" /\ action = "PRESS" /\ move_dir = 0 /\ Want < 0
  \/ key = "A" /\ action = "RELEASE" /\ move_dir < 0 /\ Want > move_dir
  \/ key = "SPACE" /\ action = "PRESS" /\ move_dir = Want /\ Firing /\ ~fire_pressed
  \/ key = "ESCAPE" /\ ticks <= pilot.escape /\ move_dir = Want

PilotDone ==
  /\ move_dir = Want
  /\ Firing => fire_pressed

\* glfwPollEvents delivers one key event
KeyEvent ==
  /\ pc = "poll"
  /\ \E key \in Keys, action \in KeyActions :
       /\ PilotSends(key, action)
       /\ key_callback(key, action)
  /\ UNCHANGED << sim_vars, pc, bi, fault, ticks, pilot, probe, skipped >>

\* glfwPollEvents returns
PollReturn ==
  /\ pc = "poll"
  /\ PilotDone
  /\ pc' = "loop"
  /\ UNCHANGED << sim_vars, input_vars, bi, fault, ticks, pilot, probe, skipped >>

Next ==
  \/ LoopHead
  \/ Draw
  \/ Drift
  \/ BulletStep
  \/ BulletsDone
  \/ Ramp
  \/ Deaths
  \/ Formation
  \/ Anim
  \/ Player
  \/ Bounds
  \/ Fire
  \/ KeyEvent
  \/ PollReturn

(* --------------------------- specifications -------------------------- *)
\* no function is called on its own: the loop of main runs
NoCall == [fn |-> "none"]

\* ticks each pilot is followed for
HorizonWave == 284
HorizonDuel == 172
HorizonSiege == 745
HorizonBarrage == 284
HorizonEscape == 3
HorizonFlood == 258
HorizonLastShot == 168
HorizonDescent == 608
HorizonRamp == 121

\* hide on the left, then sweep right under the swarm firing every tick
PlanWave ==
  << [ticks |-> 120, move |-> -1, fire |-> 0], [ticks |-> 80, move |-> 1, fire |-> 1],
     [ticks |-> 56, move |-> 0, fire |-> 4] >>
\* never fire, stand under the alien fire
PlanDuel ==
  << [ticks |-> 72, move |-> -1, fire |-> 0], [ticks |-> 16, move |-> 1, fire |-> 0],
     [ticks |-> 80, move |-> 0, fire |-> 0] >>
\* thin the swarm with a shot every fourth tick and let the rest come down
PlanSiege ==
  << [ticks |-> 56, move |-> -1, fire |-> 4], [ticks |-> 104, move |-> 1, fire |-> 4],
     [ticks |-> 72, move |-> -1, fire |-> 4], [ticks |-> 16, move |-> 0, fire |-> 4],
     [ticks |-> 40, move |-> 1, fire |-> 4] >>
\* keep as many bullets in flight as the pool holds
PlanBarrage ==
  << [ticks |-> 4, move |-> -1, fire |-> 1], [ticks |-> 1, move |-> -1, fire |-> 0],
     [ticks |-> 22, move |-> -1, fire |-> 1], [ticks |-> 3, move |-> 0, fire |-> 1],
     [ticks |-> 2, move |-> 0, fire |-> 0], [ticks |-> 1, move |-> 0, fire |-> 1],
     [ticks |-> 1, move |-> 1, fire |-> 1], [ticks |-> 10, move |-> 0, fire |-> 1],
     [ticks |-> 7, move |-> 1, fire |-> 1], [ticks |-> 5, move |-> 0, fire |-> 0],
     [ticks |-> 3, move |-> 0, fire |-> 1], [ticks |-> 2, move |-> 0, fire |-> 0],
     [ticks |-> 5, move |-> 0, fire |-> 1], [ticks |-> 2, move |-> 0, fire |-> 0],
     [ticks |-> 2, move |-> 0, fire |-> 1], [ticks |-> 1, move |-> 0, fire |-> 0],
     [ticks |-> 31, move |-> 0, fire |-> 1], [ticks |-> 8, move |-> 1, fire |-> 1],
     [ticks |-> 1, move |-> 0, fire |-> 1], [ticks |-> 9, move |-> 1, fire |-> 0],
     [ticks |-> 10, move |-> 1, fire |-> 1], [ticks |-> 3, move |-> 1, fire |-> 0],
     [ticks |-> 1, move |-> 0, fire |-> 1], [ticks |-> 22, move |-> 1, fire |-> 1],
     [ticks |-> 2, move |-> 1, fire |-> 0], [ticks |-> 41, move |-> 1, fire |-> 1],
     [ticks |-> 82, move |-> -1, fire |-> 1] >>
\* fill the pool while the swarm fires on consecutive ticks
PlanFlood ==
  << [ticks |-> 6, move |-> 1, fire |-> 1], [ticks |-> 1, move |-> 1, fire |-> 0],
     [ticks |-> 3, move |-> 0, fire |-> 0], [ticks |-> 12, move |-> 0, fire |-> 1],
     [ticks |-> 1, move |-> -1, fire |-> 1], [ticks |-> 8, move |-> 0, fire |-> 0],
     [ticks |-> 9, move |-> 0, fire |-> 1], [ticks |-> 1, move |-> 0, fire |-> 0],
     [ticks |-> 23, move |-> 0, fire |-> 1], [ticks |-> 2, move |-> -1, fire |-> 1],
     [ticks |-> 9, move |-> 0, fire |-> 0], [ticks |-> 16, move |-> -1, fire |-> 1],
     [ticks |-> 3, move |-> 0, fire |-> 1], [ticks |-> 5, move |-> -1, fire |-> 1],
     [ticks |-> 1, move |-> 0, fire |-> 0], [ticks |-> 2, move |-> -1, fire |-> 0],
     [ticks |-> 2, move |-> 0, fire |-> 0], [ticks |-> 6, move |-> -1, fire |-> 1],
     [ticks |-> 7, move |-> -1, fire |-> 0], [ticks |-> 3, move |-> 0, fire |-> 1],
     [ticks |-> 1, move |-> -1, fire |-> 1], [ticks |-> 5, move |-> 0, fire |-> 0],
     [ticks |-> 2, move |-> 0, fire |-> 1], [ticks |-> 1, move |-> 0, fire |-> 0],
     [ticks |-> 2, move |-> -1, fire |-> 1], [ticks |-> 1, move |-> -1, fire |-> 0],
     [ticks |-> 1, move |-> -1, fire |-> 1], [ticks |-> 3, move |-> -1, fire |-> 0],
     [ticks |-> 29, move |-> 0, fire |-> 1], [ticks |-> 30, move |-> 1, fire |-> 1],
     [ticks |-> 61, move |-> -1, fire |-> 1] >>
\* stand under the alien fire as PlanDuel does and ask for a shot when the last
\* life is lost
PlanLastShot ==
  << [ticks |-> 72, move |-> -1, fire |-> 0], [ticks |-> 16, move |-> 1, fire |-> 0],
     [ticks |-> 77, move |-> 0, fire |-> 0], [ticks |-> 6, move |-> 0, fire |-> 1] >>
\* thin the formation out and let the survivors come down to the bottom of the
\* playfield
PlanDescent ==
  << [ticks |-> 58, move |-> 0, fire |-> 3], [ticks |-> 37, move |-> -1, fire |-> 3],
     [ticks |-> 8, move |-> -1, fire |-> 8], [ticks |-> 102, move |-> 1, fire |-> 6],
     [ticks |-> 111, move |-> -1, fire |-> 1], [ticks |-> 28, move |-> 1, fire |-> 3] >>
\* bring the fifteenth kill onto the tick on which update_frequency has run
\* down to 1
PlanRamp ==
  << [ticks |-> 33, move |-> 1, fire |-> 3], [ticks |-> 102, move |-> 0, fire |-> 1] >>
PlanIdle == << >>

WavePilot == [plan |-> PlanWave, escape |-> 0, horizon |-> HorizonWave]
DuelPilot == [plan |-> PlanDuel, escape |-> 0, horizon |-> HorizonDuel]
SiegePilot == [plan |-> PlanSiege, escape |-> 0, horizon |-> HorizonSiege]
BarragePilot == [plan |-> PlanBarrage, escape |-> 0, horizon |-> HorizonBarrage]
EscapePilot == [plan |-> PlanIdle, escape |-> 2, horizon |-> HorizonEscape]
FloodPilot == [plan |-> PlanFlood, escape |-> 0, horizon |-> HorizonFlood]
LastShotPilot == [plan |-> PlanLastShot, escape |-> 0, horizon |-> HorizonLastShot]
DescentPilot == [plan |-> PlanDescent, escape |-> 0, horizon |-> HorizonDescent]
RampPilot == [plan |-> PlanRamp, escape |-> 0, horizon |-> HorizonRamp]

Init == InitialState /\ pilot \in {WavePilot, DuelPilot, SiegePilot, BarragePilot, EscapePilot} /\ probe = NoCall
Spec == Init /\ [][Next]_vars

InitWave == InitialState /\ pilot \in {WavePilot, EscapePilot} /\ probe = NoCall
SpecWave == InitWave /\ [][Next]_vars

InitSiege == InitialState /\ pilot \in {SiegePilot, EscapePilot} /\ probe = NoCall
SpecSiege == InitSiege /\ [][Next]_vars

(* ------------------------------ properties --------------------------- *)
\* the loop iteration has run to its end
TickEnd == pc \in {"poll", "loop"}

\* the bullet the bullet loop is at, after game.bullets[i].y += game.bullets[i].dir
AdvancedBullet == [bullets[bi + 1] EXCEPT !.y = bullets[bi + 1].y + bullets[bi + 1].dir]
AtLiveBullet == pc = "bullets" /\ bi < num_bullets /\ ~Expired(AdvancedBullet)

\* the alive aliens a player bullet at the loop position overlaps
AliensHit ==
  {j \in AliveIds(aliens) :
     sprite_overlap_check(bullet_sprite, AdvancedBullet.x, AdvancedBullet.y,
                          CurrentFrameSprite(aliens[j].type),
                          aliens[j].x, aliens[j].y)}
PlayerBulletHits == AtLiveBullet /\ AdvancedBullet.dir > 0 /\ AliensHit # {}
PlayerIsHit == AtLiveBullet /\ AdvancedBullet.dir < 0 /\ HitsPlayer(AdvancedBullet)

\* C2: whenever kills < 55 where the formation step samples an alive alien or
\* where bounds tracking scans for the first and last alive alien, some alien
\* is alive.
C2_GuardMeansAlive ==
  (/\ aliens_killed < num_aliens
   /\ \/ pc = "formation" /\ UGe(alien_update_timer, alien_update_frequency)
      \/ pc = "bounds")
    => AliveIds(aliens) # {}

\* C3: a player bullet that hits an alive alien adds 10 * (4 - kind) to the
\* score, makes that alien Dead, adds one kill and takes one bullet off the
\* pool, all in that step; no other step changes the score.
C3_HitScores ==
  [][IF PlayerBulletHits
       THEN LET j == MinOf(AliensHit)
            IN  /\ score' = score + 10 * (4 - aliens[j].type)
                /\ aliens[j].type \in 1 .. 3
                /\ aliens'[j].type = DEAD
                /\ aliens_killed' = aliens_killed + 1
                /\ Len(bullets') = Len(bullets) - 1
       ELSE score' = score]_vars

\* all 55 aliens of the first wave shot: 11 of kind 1, 22 of kind 2, 22 of kind 3
C3_Witness ==
  /\ aliens_killed = num_aliens
  /\ score = 11 * 30 + 22 * 20 + 22 * 10
  /\ AliveIds(aliens) = {}

\* C4: every alien's kind is Dead, 1, 2 or 3, and a Dead alien stays Dead in
\* every step but the wave reset.
C4_DeadStaysDead ==
  /\ [](\A a \in AlienIds : aliens[a].type \in {DEAD, 1, 2, 3})
  /\ [][\A a \in AlienIds :
          (aliens[a].type = DEAD /\ aliens'[a].type # DEAD)
            => (pc = "bounds" /\ aliens_killed >= num_aliens)]_vars

\* one alien Dead by the wrap step (left at y = 0) next to one Dead by a hit,
\* some ticks after the first kill
C4_Witness ==
  /\ pc = "bullets"
  /\ aliens_killed >= 30
  /\ \E a \in AlienIds : aliens[a].type = DEAD /\ aliens[a].y = 0
  /\ Cardinality(AlienIds \ AliveIds(aliens)) > aliens_killed

\* C5: the wave reset leaves the alien array equal to the array at game
\* start, and kills = 0.
C5_ResetRestoresStart ==
  [][(pc = "bounds" /\ aliens_killed >= num_aliens)
       => (aliens' = InitialAliens /\ aliens_killed' = 0)]_vars

\* C6: at the end of every tick no live bullet lies outside the vertical
\* bounds.
C6_NoStrayBulletAtTickEnd ==
  TickEnd => \A k \in 1 .. num_bullets : ~Expired(bullets[k])

\* C7: the ramp flag is raised exactly by the kill that brings kills to a
\* multiple of 15 and is consumed by the ramp step of the same tick, which
\* halves update_frequency once; without the flag the ramp step leaves the
\* frequency alone, and no other step halves it.
C7_HalvedOncePerBoundary ==
  /\ [](pc \in {"loop", "draw", "drift", "deaths", "formation", "anim",
                "player", "bounds", "fire", "poll", "exit"}
          => ~should_change_speed)
  /\ [][/\ pc = "bullets" =>
             (should_change_speed' <=>
                \/ should_change_speed
                \/ aliens_killed' # aliens_killed /\ aliens_killed' % 15 = 0)
        /\ pc = "ramp" =>
             alien_update_frequency' =
               IF should_change_speed THEN alien_update_frequency \div 2
               ELSE alien_update_frequency
        /\ alien_update_frequency' # alien_update_frequency =>
             pc \in {"drift", "ramp", "bounds"}]_vars

\* the ramp step has just run on the tick of the 15th kill
C7_Witness ==
  /\ pc = "deaths"
  /\ aliens_killed = speed_change_kills
  /\ ~should_change_speed
  /\ alien_animation[0].frame_duration = alien_update_frequency
  /\ alien_update_frequency < initial_update_frequency \div 2

\* C8: once lives are 0 and the tick of the last hit has ended, every later
\* step leaves the simulation as it is (aliens, bullets, score, swarm state,
\* timers, lives) and never enters the simulation steps again.
GameOverReached == player.lives = 0 /\ pc \in {"poll", "loop", "exit"}
C9_FullPoolFire ==
  [][(pc = "fire" /\ fire_pressed /\ num_bullets = 128)
       => (bullets' = bullets /\ ~fire_pressed')]_vars

\* the pilot asked for a shot at the last poll
PressedLastPoll ==
  LET l == LegAt(pilot.plan, 1, ticks - 1)
  IN  l.fire > 0 /\ (l.at - 1) % l.fire = 0

\* the fire step has run on a full pool: the flag is down, the pool is still
\* full and its last slot does not hold a fresh player bullet
C9_Witness ==
  /\ pc = "poll"
  /\ PressedLastPoll
  /\ ~fire_pressed
  /\ num_bullets = game_max_bullets
  /\ bullets[game_max_bullets] # PlayerBullet

\* C10: a hit on the player takes one life (lives stay within 0 .. 3),
\* removes the hitting bullet, leaves every later bullet of the pool as it
\* was and ends the bullet loop, which is entered once per tick; no other
\* step changes the lives.
C10_OneHitPerTick ==
  /\ [](player.lives \in 0 .. initial_lives)
  /\ [][/\ IF PlayerIsHit
             THEN /\ player'.lives = player.lives - 1
                  /\ Len(bullets') = Len(bullets) - 1
                  /\ \A k \in bi + 2 .. Len(bullets) - 1 : bullets'[k] = bullets[k]
                  /\ bi + 1 < Len(bullets) => bullets'[bi + 1] = bullets[Len(bullets)]
                  /\ pc' = "ramp"
             ELSE player'.lives = player.lives
        /\ (pc' = "bullets" /\ pc # "bullets") => pc = "drift"
        /\ pc' = "drift" => pc = "draw"
        /\ pc' = "draw" => (pc = "loop" /\ ticks' = ticks + 1)]_vars

\* a hit has just ended the bullet loop with bullets left behind it
C10_Witness ==
  /\ pc = "ramp"
  /\ player.lives < initial_lives
  /\ bi < num_bullets

InitBarrage == InitialState /\ pilot \in {BarragePilot, EscapePilot} /\ probe = NoCall
SpecBarrage == InitBarrage /\ [][Next]_vars


InitFlood == InitialState /\ pilot \in {FloodPilot, EscapePilot} /\ probe = NoCall
SpecFlood == InitFlood /\ [][Next]_vars

\* C1: at every point of every tick the live bullet count is within 0..128,
\* and no spawn, by the player or by the swarm in the formation step, writes
\* slot 128 of the pool or raises the count above the capacity
C1_PoolBounded ==
  /\ num_bullets \in 0 .. game_max_bullets
  /\ fault # "bullet_overflow"

(* ------------------- functions called on their own ------------------- *)
\* the call has returned
Returned(fn) == pc = "return" /\ probe.fn = fn

\* sides and coordinates of the rectangles handed to sprite_overlap_check; a
\* sprite has at least one pixel each way
MaxSide == 2
MaxCoord == 3
Rects ==
  [width : 1 .. MaxSide, height : 1 .. MaxSide, x : 0 .. MaxCoord, y : 0 .. MaxCoord]

\* sprite_overlap_check(a, b) and sprite_overlap_check(b, a)
CallOverlap ==
  /\ pc = "loop"
  /\ probe.fn = "sprite_overlap_check"
  /\ LET a == probe.arg.a
         b == probe.arg.b
     IN  probe' = [probe EXCEPT
                     !.ret = [ab |-> sprite_overlap_check(a, a.x, a.y, b, b.x, b.y),
                              ba |-> sprite_overlap_check(b, b.x, b.y, a, a.x, a.y)]]
  /\ pc' = "return"
  /\ UNCHANGED << sim_vars, input_vars, bi, fault, ticks, pilot, skipped >>

InitOverlap ==
  /\ InitialState
  /\ pilot = EscapePilot
  /\ probe \in [fn : {"sprite_overlap_check"}, arg : [a : Rects, b : Rects],
                ret : {[ab |-> FALSE, ba |-> FALSE]}]
NextOverlap == CallOverlap
SpecOverlap == InitOverlap /\ [][NextOverlap]_vars

\* the interiors of the two rectangles meet
Crossing(a, b) ==
  /\ \E px \in 0 .. 2 * MaxCoord + 2 * MaxSide :
        /\ a.x <= px /\ px < a.x + a.width
        /\ b.x <= px /\ px < b.x + b.width
  /\ \E py \in 0 .. 2 * MaxCoord + 2 * MaxSide :
        /\ a.y <= py /\ py < a.y + a.height
        /\ b.y <= py /\ py < b.y + b.height

\* C11: the bounding-box overlap test gives the same answer for (A, B) and
\* for (B, A), and two rectangles that only touch, sharing an edge or a
\* corner without their interiors crossing, do not overlap
C11_OverlapSymmetric ==
  Returned("sprite_overlap_check") =>
    /\ probe.ret.ab = probe.ret.ba
    /\ ~Crossing(probe.arg.a, probe.arg.b) => ~probe.ret.ab

\* two rectangles with a common edge and nothing more, tested both ways
C11_Witness ==
  /\ Returned("sprite_overlap_check")
  /\ probe.arg.a = [width |-> 2, height |-> 2, x |-> 0, y |-> 0]
  /\ probe.arg.b = [width |-> 2, height |-> 2, x |-> 2, y |-> 0]
  /\ ~probe.ret.ab

(* ------------------------- a keyboard let loose ----------------------- *)
\* Keys held while the window gains or loses the focus reach key_callback as a
\* press without its release or a release without its press, so move_dir is
\* not kept within -1 .. 1.  Here any event of the keys other than the fire key
\* may arrive at a poll while |move_dir| stays within MaxHeld.
MaxHeld == 6
HorizonKeys == 62

AnyKeyEvent ==
  /\ pc = "poll"
  /\ \E key \in Keys, action \in KeyActions :
       /\ key # "SPACE"
       /\ key_callback(key, action)
  /\ move_dir' \in -MaxHeld .. MaxHeld
  /\ UNCHANGED << sim_vars, pc, bi, fault, ticks, pilot, probe, skipped >>

AnyPollReturn ==
  /\ pc = "poll"
  /\ pc' = "loop"
  /\ UNCHANGED << sim_vars, input_vars, bi, fault, ticks, pilot, probe, skipped >>

KeysPilot == [plan |-> PlanIdle, escape |-> 0, horizon |-> HorizonKeys]
InitKeys == InitialState /\ pilot = KeysPilot /\ probe = NoCall
NextKeys ==
  \/ LoopHead
  \/ Draw
  \/ Drift
  \/ BulletStep
  \/ BulletsDone
  \/ Ramp
  \/ Deaths
  \/ Formation
  \/ Anim
  \/ Player
  \/ Bounds
  \/ Fire
  \/ AnyKeyEvent
  \/ AnyPollReturn
SpecKeys == InitKeys /\ [][NextKeys]_vars

\* C12: after any sequence of ticks and key events the player stays on the
\* playfield, 0 <= player.x <= game.width - player_sprite.width
C12_PlayerClamped == player.x \in 0 .. buffer_width - player_sprite.width

\* the player, held to the right, has been stopped by the right wall
C12_Witness ==
  /\ pc = "bounds"
  /\ player.x = buffer_width - player_sprite.width
  /\ move_dir > 0
  /\ ticks > 1

\* the generator state that xorshift32 takes to 2^32 - 1
OnesSource == [hi |-> 24172, lo |-> 64743]
\* how far around a state the generator states handed to random are taken
Spread == 60
RngStates ==
  {Word(n) : n \in 0 .. Spread} \cup {Word(rng_seed + n) : n \in 0 .. Spread}
    \cup {[hi |-> OnesSource.hi, lo |-> l] :
            l \in OnesSource.lo - Spread .. OnesSource.lo + Spread}

\* random(&rng) and static_cast<size_t>(game.num_aliens * random(&rng))
CallRandom ==
  /\ pc = "loop"
  /\ probe.fn = "random"
  /\ LET w == xorshift32(probe.arg)
     IN  probe' = [probe EXCEPT
                     !.ret = [rng |-> w, rai |-> RandomIndex(num_aliens, w)]]
  /\ pc' = "return"
  /\ UNCHANGED << sim_vars, input_vars, bi, fault, ticks, pilot, skipped >>

InitRandom ==
  /\ InitialState
  /\ pilot = EscapePilot
  /\ probe \in [fn : {"random"}, arg : RngStates, ret : {[rng |-> Word(0), rai |-> 0]}]
NextRandom == CallRandom
SpecRandom == InitRandom /\ [][NextRandom]_vars

\* C13: for every generator state random returns a value below 1, that is
\* xorshift32 returns less than the 2^32 - 1 it is divided by, and the alien
\* index floor(num_aliens * random) is within 0 .. num_aliens - 1
C13_RandomBelowOne ==
  Returned("random") =>
    /\ probe.ret.rng # [hi |-> 65535, lo |-> 65535]
    /\ probe.ret.rai \in 0 .. num_aliens - 1

InitLastShot == InitialState /\ pilot \in {LastShotPilot, EscapePilot} /\ probe = NoCall
SpecLastShot == InitLastShot /\ [][Next]_vars

\* C14: the fire-requested flag is false at the end of every tick of the loop,
\* the ticks spent in the game-over state included: no step that ends a tick
\* and hands over to the poll leaves the flag raised
C14_FireFlagCleared ==
  [][(pc # "poll" /\ pc' = "poll") => ~fire_pressed']_vars

\* the steps of a simulated tick that may follow step p, in the order of the
\* claim: bullets, drift, ramp, ...
ClaimedAfter(p) ==
  CASE p = "draw" -> {"bullets"}
    [] p = "bullets" -> {"bullets", "drift"}
    [] p = "drift" -> {"ramp"}
    [] p = "ramp" -> {"deaths"}
    [] p = "deaths" -> {"formation"}
    [] p = "formation" -> {"anim"}
    [] p = "anim" -> {"player"}
    [] p = "player" -> {"bounds"}
    [] p = "bounds" -> {"fire"}
    [] p = "fire" -> {"poll"}
    [] OTHER -> {"loop", "draw", "poll", "exit"}

\* the same with the drift before the bullets
After(p) ==
  CASE p = "draw" -> {"drift"}
    [] p = "drift" -> {"bullets"}
    [] p = "bullets" -> {"bullets", "ramp"}
    [] OTHER -> ClaimedAfter(p)

\* what each step of a tick is known by: the drift counts
\* alien_update_frequency down, the bullet pass moves on in the pool, the ramp
\* lowers the flag, the fire step lowers the fire request
StepActs ==
  /\ pc = "drift" => alien_update_frequency' # alien_update_frequency
  /\ alien_update_frequency' # alien_update_frequency
       => pc \in {"drift", "ramp", "bounds"}
  /\ bullets' # bullets => pc \in {"bullets", "formation", "fire"}
  /\ pc = "bullets" /\ pc' = "bullets" => (bi' # bi \/ bullets' # bullets)
  /\ pc = "ramp" => ~should_change_speed'
  /\ pc = "fire" => ~fire_pressed'

\* C15 as stated: within a simulated tick the bullets are advanced and
\* collided first, then the vertical drift, then the ramp, the death
\* countdowns, the formation step, the animation clocks, the player, the
\* bounds or the wave reset, the player bullet and the fire flag
C15_BulletsThenDrift ==
  [][(pc' # "halt") => (StepActs /\ pc' \in ClaimedAfter(pc))]_vars

\* C15, amended: the vertical drift comes first and the bullets second; the
\* rest of the order is as stated
C15_DriftThenBullets ==
  [][(pc' # "halt") => (StepActs /\ pc' \in After(pc))]_vars

\* a tick in which the bullet pass has killed an alien reaches its fire step
\* with a shot asked for
C15_Witness ==
  /\ pc = "fire"
  /\ fire_pressed
  /\ aliens_killed > 0
  /\ num_bullets > 0

\* the formation step is due
FormationDue == pc = "formation" /\ UGe(alien_update_timer, alien_update_frequency)
\* advancing would carry the left edge past x = 0
LeftTurn == alien_swarm_position + alien_move_dir < 0
\* advancing would carry the right edge past max_position
RightTurn ==
  /\ ~LeftTurn
  /\ alien_swarm_position + alien_move_dir > alien_swarm_max_position
\* position and every alien's x move by d
Advanced(d) ==
  /\ alien_swarm_position' = alien_swarm_position + d
  /\ \A a \in AlienIds : aliens'[a].x = aliens[a].x + d
\* the formation drops by descend_step exactly on a left turn
DropsOnLeftTurn ==
  \A a \in AlienIds :
    aliens'[a].y = IF LeftTurn THEN aliens[a].y - descend_step ELSE aliens[a].y

\* C16 as stated: a formation step that reverses direction, at the left edge
\* with a drop of 8 pixels or else at the right edge, does not advance
\* position and the aliens; only a step without reversal advances them
C16_TurnOrAdvance ==
  [][FormationDue =>
       /\ DropsOnLeftTurn
       /\ IF LeftTurn \/ RightTurn
            THEN alien_move_dir' = -alien_move_dir /\ Advanced(0)
            ELSE alien_move_dir' = alien_move_dir /\ Advanced(alien_move_dir)]_vars

\* C16, amended: the left edge is tested first and the right edge only if
\* the left test fails; either reverses move_dir, the left one also drops
\* the formation by 8 pixels; after that position and every alien's x are
\* advanced by move_dir in all three cases, on a reversal by the new one
C16_TurnThenAdvance ==
  [][FormationDue =>
       /\ DropsOnLeftTurn
       /\ alien_move_dir' = IF LeftTurn \/ RightTurn THEN -alien_move_dir
                            ELSE alien_move_dir
       /\ Advanced(alien_move_dir')]_vars

\* a formation step has been taken at the left edge: the formation, which
\* set out to the right and turned at the right edge, moves right again from
\* a position that a step to the left would have taken below 0
C16_Witness ==
  /\ pc = "anim"
  /\ alien_update_timer = 0
  /\ alien_move_dir > 0
  /\ alien_swarm_position < 2 * alien_move_dir

Abs(n) == IF n < 0 THEN -n ELSE n
\* the aliens the wrap step relocates in this tick
Wrapping ==
  IF pc = "drift" /\ alien_update_frequency = 0
    THEN {a \in AlienIds : aliens[a].type # DEAD /\ UGt(aliens[a].y, buffer_height)}
    ELSE {}
\* the step is the wave reset
WaveResets == pc = "bounds" /\ ~(aliens_killed < num_aliens)

\* C17: every alien the wrap step relocates lowers the magnitude of move_dir
\* by exactly one, and outside a wave reset no step raises the magnitude of
\* move_dir, whatever its sign and however many aliens wrap in one tick
C17_WrapSlows ==
  [][/\ Abs(alien_move_dir') = Abs(alien_move_dir) - Cardinality(Wrapping)
     /\ WaveResets \/ Abs(alien_move_dir') <= Abs(alien_move_dir)]_vars

\* bounds tracking is about to read the aliens: some alien is alive
Tracking == pc = "bounds" /\ ~WaveCleared /\ AliveIds(aliens) # {}
\* the alive aliens with minimum x, and those with maximum x
Leftmost(als) ==
  {a \in AliveIds(als) : \A b \in AliveIds(als) : ~ULt(als[b].x, als[a].x)}
Rightmost(als) ==
  {a \in AliveIds(als) : \A b \in AliveIds(als) : ~UGt(als[b].x, als[a].x)}

\* C18: whenever bounds tracking runs with an alive alien, the alien it
\* takes the candidate for position from is an alive alien of minimum x and
\* the alien it takes the candidate for max_position from is an alive
\* alien of maximum x
C18_TracksExtremes ==
  Tracking => /\ MinOf(AliveIds(aliens)) \in Leftmost(aliens)
              /\ MaxOf(AliveIds(aliens)) \in Rightmost(aliens)

\* alien a, alive, is inside the playfield before the step and above its
\* height after it
LeavesPlayfield(a) ==
  /\ aliens[a].type # DEAD
  /\ ~UGt(aliens[a].y, buffer_height)
  /\ UGt(aliens'[a].y, buffer_height)
\* the step takes the y of alien a, alive, below 0: the unsigned y wraps
WrapsBelowZero(a) ==
  aliens[a].type # DEAD /\ aliens[a].y >= 0 /\ aliens'[a].y < 0

\* C19: the y of an alive alien comes to exceed the playfield height only in
\* the vertical drift step, by y += move_dir going up, and no step (the
\* 8-pixel drop of the formation step, the drift with a negative move_dir)
\* takes the y of an alive alien below 0
C19_OnlyDriftLeaves ==
  [][\A a \in AlienIds :
       /\ LeavesPlayfield(a) => pc = "drift" /\ alien_move_dir > 0
       /\ ~WrapsBelowZero(a)]_vars

\* the bullet loop of this tick has not gone past slot k
NotPast(k) == pc \in {"draw", "drift"} \/ (pc = "bullets" /\ bi <= k)

\* C20: while the game runs, a bullet that a removal by swap-with-last
\* (expiry or alien kill) moved into the vacated slot, and that the pass of
\* that tick therefore neither advanced nor tested, is visited by the bullet
\* loop of the following tick
C20_MovedBulletNextTick ==
  GameOver \/ fault # "none"
    \/ \A e \in skipped :
         e.tick = ticks \/ (e.tick + 1 = ticks /\ NotPast(e.slot))

(* ------------------------ bullet against bullet ---------------------- *)
\* the alien bullets of the pool bs that the player bullet p overlaps
Intercepted(bs, p) ==
  {k \in 1 .. Len(bs) :
     /\ bs[k].dir < 0
     /\ sprite_overlap_check(bullet_sprite, p.x, p.y,
          alien_bullet_sprite, bs[k].x, bs[k].y)}
\* how many slots of the pool bs hold the bullet q
Copies(bs, q) == Cardinality({k \in 1 .. Len(bs) : bs[k] = q})
\* the bullet loop is at a player bullet
AtPlayerBullet == pc = "bullets" /\ bi < num_bullets /\ bullets[bi + 1].dir > 0

\* C21: no step takes two bullets out of the pool, and the step of the
\* bullet loop at a player bullet leaves every alien bullet live, the ones
\* the player bullet overlaps too; the player bullet itself leaves the pool
\* in that step only by expiry or by killing an alien
C21_NoInterception ==
  [][/\ Len(bullets') >= Len(bullets) - 1
     /\ AtPlayerBullet =>
          /\ \A k \in 1 .. Len(bullets) :
               bullets[k].dir < 0
                 => Copies(bullets', bullets[k]) = Copies(bullets, bullets[k])
          /\ Len(bullets') < Len(bullets)
               => \/ Expired([bullets[bi + 1] EXCEPT !.y = @ + bullets[bi + 1].dir])
                  \/ aliens_killed' = aliens_killed + 1]_vars
\* the bullet loop has just been at a player bullet that overlaps an alien
\* bullet, and both are in the pool
C21_Witness ==
  /\ pc = "bullets"
  /\ bi > 0
  /\ bi <= num_bullets
  /\ bullets[bi].dir > 0
  /\ \A e \in skipped : e.slot # bi - 1
  /\ Intercepted(bullets, bullets[bi]) # {}

(* --------------------------- death countdown ------------------------- *)
\* the aliens the draw loop draws with the death sprite
DrawnDead ==
  {a \in AlienIds : alien_death_counter[a] # 0 /\ aliens[a].type = DEAD}

\* C22: the death countdown of an alien is 10 while the alien is alive; in
\* the death-counting step of every simulated tick the countdown of a dead
\* alien goes down by exactly one, or stays at 0; no other step changes a
\* countdown but the wave reset, which sets it to 10; and a dead alien is
\* drawn only while its countdown is not 0
C22_Countdown ==
  [][\A a \in AlienIds :
       /\ aliens'[a].type # DEAD => alien_death_counter'[a] = 10
       /\ alien_death_counter'[a] \in 0 .. 10
       /\ (pc = "deaths" /\ aliens[a].type = DEAD)
            => alien_death_counter'[a] =
                 IF alien_death_counter[a] = 0 THEN 0 ELSE alien_death_counter[a] - 1
       /\ alien_death_counter'[a] # alien_death_counter[a]
            => \/ pc = "deaths" /\ aliens[a].type = DEAD
               \/ WaveResets /\ alien_death_counter'[a] = 10
       /\ (a \in DrawnDead)' => alien_death_counter'[a] \in 1 .. 10]_vars
\* the death-counting step has just run over an alien whose countdown is at
\* 0 and over one whose countdown is running
C22_Witness ==
  /\ pc = "formation"
  /\ \E a \in AlienIds : aliens[a].type = DEAD /\ alien_death_counter[a] = 0
  /\ \E a \in AlienIds : aliens[a].type = DEAD /\ alien_death_counter[a] \in 1 .. 9

(* ----------------------------- alien fire ---------------------------- *)
InitDescent == InitialState /\ pilot \in {DescentPilot, EscapePilot} /\ probe = NoCall
SpecDescent == InitDescent /\ [][Next]_vars

\* the alien bullets of the pool bs
AlienShots(bs) == {k \in 1 .. Len(bs) : bs[k].dir < 0}
\* the step puts an alien bullet into the pool
AlienFires == Cardinality(AlienShots(bullets')) > Cardinality(AlienShots(bullets))
\* bullet b stands just below alien al: centred under frame 0 of its sprite
\* and one alien bullet height lower, the unsigned subtraction not wrapping
JustBelow(b, al) ==
  /\ al.type # DEAD
  /\ b.x = al.x + alien_sprites[2 * (al.type - 1) + 1].width \div 2
  /\ b.y = al.y - alien_bullet_sprite.height
  /\ al.y >= 0 => b.y >= 0

\* C23: an alien bullet enters the pool only in a formation step, taken with
\* update_timer >= update_frequency and leaving update_timer at 0, one bullet
\* in the step, only while kills < total aliens, with direction -2 and at
\* the position just below an alien alive at that moment
C23_AlienFire ==
  [][AlienFires =>
       /\ pc = "formation"
       /\ UGe(alien_update_timer, alien_update_frequency)
       /\ alien_update_timer' = 0
       /\ aliens_killed < num_aliens
       /\ Len(bullets') = Len(bullets) + 1
       /\ SubSeq(bullets', 1, Len(bullets)) = bullets
       /\ bullets'[Len(bullets')].dir = -2
       /\ \E a \in AlienIds : JustBelow(bullets'[Len(bullets')], aliens'[a])]_vars

(* ----------------------------- wave reset ---------------------------- *)
\* the steps of a tick from the bullet loop to bounds tracking
MidTick == {"bullets", "ramp", "deaths", "formation", "anim", "player", "bounds"}

\* C24: the wave reset sets update_frequency to 120, position to 24, kills to
\* 0, update_timer to 0, move_dir to +4 and every death countdown to 10, and
\* leaves score, the player's lives and position and the bullet pool as they
\* are; it runs in the tick in which kills reaches 55, so kills is in 0 .. 54
\* at every tick boundary and 55 only between the bullet loop and the reset
C24_WaveReset ==
  [][/\ WaveResets =>
          /\ alien_update_frequency' = 120
          /\ alien_swarm_position' = 24
          /\ aliens_killed' = 0
          /\ alien_update_timer' = 0
          /\ alien_move_dir' = 4
          /\ \A a \in AlienIds : alien_death_counter'[a] = 10
          /\ UNCHANGED << score, player, bullets >>
     /\ aliens_killed' \in 0 .. num_aliens
     /\ aliens_killed' = num_aliens => pc' \in MidTick]_vars
\* the wave reset has just run
C24_Witness ==
  /\ pc = "fire"
  /\ aliens_killed = 0
  /\ score >= 10 * num_aliens
  /\ AliveIds(aliens) = AlienIds
  /\ alien_update_frequency = 120

(* --------------------------- drift countdown ------------------------- *)
\* C25: update_frequency is between 0 and 120 at every step; the drift step
\* of every simulated tick takes it down by one, or, finding it at 0, sets it
\* to 120 and runs the vertical drift and wrap over the alive aliens; on the
\* ticks that find it above 0 the aliens and move_dir are left alone
C25_DriftCountdown ==
  [][/\ alien_update_frequency' \in 0 .. 120
     /\ (pc = "drift" /\ alien_update_frequency # 0) =>
          /\ alien_update_frequency' = alien_update_frequency - 1
          /\ UNCHANGED << aliens, alien_move_dir >>
     /\ (pc = "drift" /\ alien_update_frequency = 0) =>
          /\ alien_update_frequency' = 120
          /\ \A a \in AlienIds :
               aliens[a].type # DEAD =>
                 IF UGt(aliens[a].y, buffer_height)
                   THEN aliens'[a].type = DEAD /\ aliens'[a].y = 0
                   ELSE /\ aliens'[a].type = aliens[a].type
                        /\ aliens'[a].y - aliens[a].y
                             \in alien_move_dir' .. alien_move_dir]_vars
\* the drift has just run on a tick that found update_frequency at 0, after
\* a speed change
C25_Witness ==
  /\ pc = "bullets"
  /\ bi = 0
  /\ alien_update_frequency = 120
  /\ ticks > 1
  /\ aliens_killed >= speed_change_kills
  /\ \E a \in AlienIds : aliens[a].type # DEAD /\ aliens[a].y % 17 # 128 % 17

(* ------------------------- the generator's orbit --------------------- *)
\* how many draws in a row are followed
MaxDraws == 8
\* the generator states the draws start from: the small ones, 0 and the seed
\* among them, every word of one bit, and the word of all ones
XorStates ==
  {Word(n) : n \in 0 .. Spread}
    \cup {[hi |-> 0, lo |-> 2 ^ k] : k \in 0 .. 15}
    \cup {[hi |-> 2 ^ k, lo |-> 0] : k \in 0 .. 15}
    \cup {[hi |-> 65535, lo |-> 65535]}

\* xorshift32(&rng), called again on the state the call before left
CallXorshift ==
  /\ pc \in {"loop", "return"}
  /\ probe.fn = "xorshift32"
  /\ probe.calls < MaxDraws
  /\ probe' = [probe EXCEPT !.arg = probe.ret,
                            !.ret = xorshift32(probe.ret),
                            !.calls = probe.calls + 1]
  /\ pc' = "return"
  /\ UNCHANGED << sim_vars, input_vars, bi, fault, ticks, pilot, skipped >>

InitXorshift ==
  /\ InitialState
  /\ pilot = EscapePilot
  /\ \E w \in XorStates :
       probe = [fn |-> "xorshift32", from |-> w, arg |-> w, ret |-> w, calls |-> 0]
NextXorshift == CallXorshift
SpecXorshift == InitXorshift /\ [][NextXorshift]_vars

\* C26: xorshift32 takes state 0 to 0 and every other state to a state other
\* than 0, so the state that started at the seed 13 is not 0 after any
\* number of draws
C26_ZeroOnlyFromZero ==
  Returned("xorshift32") =>
    /\ (probe.ret = Word(0)) <=> (probe.arg = Word(0))
    /\ probe.from = Word(rng_seed) => probe.ret # Word(0)
\* the generator has been drawn from MaxDraws times in a row, starting at the seed
C26_Witness ==
  /\ Returned("xorshift32")
  /\ probe.from = Word(rng_seed)
  /\ probe.calls >= MaxDraws
  /\ probe.arg # Word(rng_seed)

(* --------------------------- frame selection ------------------------- *)
InitRamp == InitialState /\ pilot \in {RampPilot, EscapePilot} /\ probe = NoCall
SpecRamp == InitRamp /\ [][Next]_vars

\* C27: whenever a frame of an alien animation is selected, in the draw loop
\* for an alive alien or in the hit test of a player bullet, the clock's
\* frame_duration is at least 1 and time / frame_duration is below the frame
\* count: no division by zero and no frame index outside {0, 1}
C27_FrameInRange ==
  /\ pc = "draw" => DrawFault = "none"
  /\ (AtPlayerBullet /\ ~Expired(AdvancedBullet))
       => ScanAliens(InterceptScan([bullets EXCEPT ![bi + 1] = AdvancedBullet])[bi + 1]).res
            # "fault"

(* ------------------------- horizontal extent ------------------------- *)
\* C28: at every tick boundary every alive alien lies horizontally inside
\* the playfield: its unsigned x has not wrapped below 0 and x plus the
\* width of its sprite is at most the width of the playfield
C28_AliensInsideWidth ==
  TickEnd =>
    \A a \in AlienIds :
      aliens[a].type # DEAD =>
        /\ aliens[a].x >= 0
        /\ aliens[a].x + alien_sprites[2 * (aliens[a].type - 1) + 1].width
             <= buffer_width

(* ----------------------- the key callback on its own ------------------ *)
\* how many key events in a row are followed
MaxEvents == 4

\* GLFW calls key_callback with a key event.  Per key the events alternate:
\* a key that is up is pressed, a key that is down repeats or is released.
CallKey ==
  /\ pc \in {"loop", "return"}
  /\ probe.fn = "key_callback"
  /\ probe.calls < MaxEvents
  /\ \E key \in Keys, action \in KeyActions :
       /\ (action = "PRESS") <=> (key \notin probe.held)
       /\ key_callback(key, action)
       /\ probe' = [probe EXCEPT
                      !.arg = [key |-> key, action |-> action],
                      !.held = IF action = "PRESS" THEN probe.held \cup {key}
                               ELSE IF action = "RELEASE" THEN probe.held \ {key}
                               ELSE probe.held,
                      !.calls = probe.calls + 1]
  /\ pc' = "return"
  /\ UNCHANGED << sim_vars, bi, fault, ticks, pilot, skipped >>

InitCallback ==
  /\ InitialState
  /\ pilot = EscapePilot
  /\ probe = [fn |-> "key_callback", arg |-> [key |-> "OTHER", action |-> "REPEAT"],
              held |-> {}, calls |-> 0]
NextCallback == CallKey
SpecCallback == InitCallback /\ [][NextCallback]_vars

\* C29: an event of the ESCAPE key, press, release or repeat, leaves
\* move_dir as it was, so with press and release alternating per key
\* move_dir stays in {-1, 0, 1}
C29_EscapeLeavesIntent ==
  [][/\ (probe.fn = "key_callback" /\ probe'.arg.key = "ESCAPE")
          => move_dir' = move_dir
     /\ move_dir' \in -1 .. 1]_vars

=============================================================================
